---- MODULE Spec2Model ----
(***************************************************************************)
(* Multi-scale template matching and greedy non-maximum suppression of     *)
(* OpenCVMatcher.py, with the duplicated NMS of RekognitionService.py.     *)
(*                                                                         *)
(* Numbers.  Scores and match thresholds are integers in hundredths (0.90  *)
(* is 90).  An IoU threshold and a scale factor are exact fractions        *)
(* <<num, den>>; every scale of ScalePool is a dyadic fraction, so the     *)
(* float product shape * s of the code is exact and int() of it is the     *)
(* integer quotient.  An IoU value inter / (union + 1e-6) is the fraction  *)
(* <<inter * EpsInv, union * EpsInv + 1>>, never reduced.                  *)
(***************************************************************************)
EXTENDS Integers, Sequences, FiniteSets, TLC

VARIABLES
    pc,            \* position of the caller: which function runs, or its return
    boxes,         \* _nms: the candidate list handed in by the caller
    iou_thr,       \* _nms: the IoU threshold, a fraction <<num, den>>
    boxes_sorted,  \* _nms: local list still to be examined
    picked,        \* _nms: local list of accepted candidates
    result,        \* _nms: the list the last call returned
    prevResult,    \* the list the call before it returned
    calls,         \* calls that have returned
    iters,         \* _nms: iterations of the while loop of the current call
    use_clahe,     \* OpenCVMatcher.use_clahe
    use_edges,     \* OpenCVMatcher.use_edges
    canny_low,     \* OpenCVMatcher.canny_low
    canny_high,    \* OpenCVMatcher.canny_high
    ticket,        \* the target image: its shape <<W, H>>
    templates,     \* the template mapping, in insertion order: name and shape <<w, h>>
    corr,          \* corr[i][size]: what cv2.matchTemplate returns for the
                   \* preprocessed target and template i resized to size
    args,          \* the arguments of the last matcher call
    prevArgs,      \* the arguments of the call before it
    corrLog,       \* the template sizes cv2.matchTemplate was called with
    raised,        \* the last matcher call ended in an exception
    searches,      \* the per-template searches of a concurrent match_multiple
    validator      \* a Validaciones or ValidacionTrasera object: its fields

nmsVars == <<pc, boxes, iou_thr, boxes_sorted, picked, result, prevResult, calls, iters>>
matchVars == <<use_clahe, use_edges, canny_low, canny_high, ticket, templates, corr, args, prevArgs, corrLog, raised,
              searches, validator>>
vars == <<nmsVars, matchVars>>

----------------------------------------------------------------------------
(* Bounds and pools of the inputs *)

MaxBoxes == 3

\* 1e-6 of the iou helpers, as its inverse
EpsInv == 1000000

\* IoU thresholds: 0 (everything overlaps), the default 0.4, 1.0
ThrPool == {<<0, 1>>, <<2, 5>>, <<1, 1>>}

Det(n, sc, b, s) == [name |-> n, score |-> sc, box |-> b, scale |-> s]

\* Candidates: an overlapping chain on one row, an exact IoU of 2/5 without
\* the epsilon ((0,0,3,1) with (1,0,5,1)), equal scores, a zero-area box, an
\* inverted box, and the pair (0,0,50,50), (5,5,55,55) in units of 5 pixels.
DetPool ==
    { Det("a", 90, <<0, 0, 4, 1>>, <<1, 1>>),
      Det("b", 90, <<1, 0, 5, 1>>, <<5, 4>>),
      Det("a", 80, <<2, 0, 6, 1>>, <<1, 1>>),
      Det("b", 80, <<0, 0, 3, 1>>, <<3, 4>>),
      Det("a", 70, <<2, 2, 2, 5>>, <<1, 1>>),
      Det("b", 95, <<4, 4, 0, 0>>, <<1, 1>>),
      Det("a", 90, <<0, 0, 10, 10>>, <<1, 1>>),
      Det("b", 80, <<1, 1, 11, 11>>, <<1, 1>>) }

BoxPool == { d.box : d \in DetPool }

RECURSIVE SeqsUpTo(_, _)
SeqsUpTo(S, n) ==
    IF n = 0 THEN {<<>>}
    ELSE LET shorter == SeqsUpTo(S, n - 1)
         IN  shorter \cup { Append(q, x) : q \in {r \in shorter : Len(r) = n - 1}, x \in S }

----------------------------------------------------------------------------
(* Helpers of both _nms functions *)

Max(a, b) == IF a >= b THEN a ELSE b
Min(a, b) == IF a <= b THEN a ELSE b

\* area(b): max(0, b[2]-b[0]) * max(0, b[3]-b[1])
Area(b) == Max(0, b[3] - b[1]) * Max(0, b[4] - b[2])

Inter(a, b) ==
    LET x1 == Max(a[1], b[1])
        y1 == Max(a[2], b[2])
        x2 == Min(a[3], b[3])
        y2 == Min(a[4], b[4])
    IN  Max(0, x2 - x1) * Max(0, y2 - y1)

\* The mutant of Iou: the union forgets the second box.
IouOneSided(a, b) == <<Inter(a, b) * EpsInv, (Area(a) - Inter(a, b)) * EpsInv + 1>>

\* The mutant of Iou: the 1e-6 of the denominator is left out.
IouNoEpsilon(a, b) ==
    LET inter == Inter(a, b)
    IN  <<inter * EpsInv, (Area(a) + Area(b) - inter) * EpsInv>>

\* iou(a, b) of OpenCVMatcher._nms: inter / (area(a) + area(b) - inter + 1e-6)
Iou(a, b) ==
    LET inter == Inter(a, b)
    IN  <<inter * EpsInv, (Area(a) + Area(b) - inter) * EpsInv + 1>>

\* iou(a, b) of RekognitionService._nms: the same formula, written again
RekIou(a, b) ==
    LET x1 == Max(a[1], b[1])
        y1 == Max(a[2], b[2])
        x2 == Min(a[3], b[3])
        y2 == Min(a[4], b[4])
        inter == Max(0, x2 - x1) * Max(0, y2 - y1)
    IN  <<inter * EpsInv, (Area(a) + Area(b) - inter) * EpsInv + 1>>

\* v < t for an IoU value v and a threshold t, both fractions with positive
\* denominators
FracLess(v, t) == v[1] * t[2] < t[1] * v[2]

\* The mutant of SortByScore: ties come out in reverse input order.
SortByScoreUnstable(seq) ==
    LET n == Len(seq)
        rank(i) == 1 + Cardinality({ j \in 1..n :
                        \/ seq[j].score > seq[i].score
                        \/ seq[j].score = seq[i].score /\ j > i })
    IN  [p \in 1..n |-> seq[CHOOSE i \in 1..n : rank(i) = p]]

\* The place of d in a list already sorted by descending score: behind every
\* element whose score is at least its own.
RECURSIVE InsertByScore(_, _)
InsertByScore(d, sorted) ==
    IF sorted = <<>> THEN <<d>>
    ELSE IF Head(sorted).score >= d.score
         THEN <<Head(sorted)>> \o InsertByScore(d, Tail(sorted))
         ELSE <<d>> \o sorted

RECURSIVE InsertAllByScore(_, _)
InsertAllByScore(sorted, rest) ==
    IF rest = <<>> THEN sorted
    ELSE InsertAllByScore(InsertByScore(Head(rest), sorted), Tail(rest))

\* boxes_sorted = sorted(boxes, key=lambda d: d.score, reverse=True).
\* Python's sort is stable, also when reversed: equal keys keep their input
\* order, so each element in turn goes behind its equals.
SortByScore(seq) == InsertAllByScore(<<>>, seq)

\* boxes_sorted = sorted(boxes, key=area, reverse=True)
SortByArea(seq) ==
    LET n == Len(seq)
        rank(i) == 1 + Cardinality({ j \in 1..n :
                        \/ Area(seq[j]) > Area(seq[i])
                        \/ Area(seq[j]) = Area(seq[i]) /\ j < i })
    IN  [p \in 1..n |-> seq[CHOOSE i \in 1..n : rank(i) = p]]

\* The mutant of Survivors: only a strictly lower-scoring candidate is removed.
SurvivorsLowerOnly(cur, rest, thr) ==
    SelectSeq(rest, LAMBDA d : d.score >= cur.score \/ FracLess(Iou(cur.box, d.box), thr))

\* [d for d in boxes_sorted if iou(cur.box, d.box) < iou_thr]
Survivors(cur, rest, thr) ==
    SelectSeq(rest, LAMBDA d : FracLess(Iou(cur.box, d.box), thr))

\* [b for b in boxes_sorted if iou(cur, b) < iou_threshold]
RekSurvivors(cur, rest, thr) ==
    SelectSeq(rest, LAMBDA b : FracLess(RekIou(cur, b), thr))

\* The mutant of NmsIterate: the accepted box is put in x1 <= x2, y1 <= y2
\* form before it is kept.
NmsIterateNormalized(st, thr) ==
    LET cur == Head(st[1])
        b   == cur.box
        nb  == <<Min(b[1], b[3]), Min(b[2], b[4]), Max(b[1], b[3]), Max(b[2], b[4])>>
    IN  <<Survivors(cur, Tail(st[1]), thr), Append(st[2], [cur EXCEPT !.box = nb])>>

\* The mutant of NmsIterate: the accepted detection goes to the front of
\* picked.
NmsIteratePrepend(st, thr) ==
    LET cur == Head(st[1])
    IN  <<Survivors(cur, Tail(st[1]), thr), <<cur>> \o st[2]>>

\* The mutant of NmsIterate: cur is read but not popped, so only the filter
\* can remove it.
NmsIterateNoPop(st, thr) ==
    LET cur == Head(st[1])
    IN  <<Survivors(cur, st[1], thr), Append(st[2], cur)>>

\* One pass of the while loop: cur = boxes_sorted.pop(0); picked.append(cur);
\* boxes_sorted = [the survivors].  A state of the loop is <<boxes_sorted, picked>>.
NmsIterate(st, thr) ==
    LET cur == Head(st[1])
    IN  <<Survivors(cur, Tail(st[1]), thr), Append(st[2], cur)>>

RekNmsIterate(st, thr) ==
    LET cur == Head(st[1])
    IN  <<RekSurvivors(cur, Tail(st[1]), thr), Append(st[2], cur)>>

RECURSIVE NmsLoop(_, _)
NmsLoop(st, thr) == IF st[1] = <<>> THEN st[2] ELSE NmsLoop(NmsIterate(st, thr), thr)

\* OpenCVMatcher._nms(boxes, iou_thr) as a function of its arguments
Nms(bs, thr) == IF bs = <<>> THEN <<>> ELSE NmsLoop(<<SortByScore(bs), <<>>>>, thr)

----------------------------------------------------------------------------
(* The caller of _nms: one call on a candidate list, then a call on the    *)
(* list that call returned.                                                *)

\* <<canny_low, canny_high>>: the defaults of OpenCVMatcher.__init__
CannyPool == { <<60, 180>> }

\* No matcher call takes part in a behaviour of the _nms caller.
NoMatcher ==
    /\ use_clahe = TRUE
    /\ use_edges = TRUE
    /\ \E c \in CannyPool : canny_low = c[1] /\ canny_high = c[2]
    /\ ticket = <<0, 0>>
    /\ templates = <<>>
    /\ corr = <<>>
    /\ args = <<>>
    /\ prevArgs = <<>>
    /\ corrLog = <<>>
    /\ raised = FALSE
    /\ searches = <<>>
    /\ validator = <<>>

InitNms ==
    /\ pc \in {"cv_call", "rek_call"}
    /\ boxes \in IF pc = "cv_call" THEN SeqsUpTo(DetPool, MaxBoxes)
                 ELSE SeqsUpTo(BoxPool, MaxBoxes)
    /\ iou_thr \in ThrPool
    /\ boxes_sorted = <<>>
    /\ picked = <<>>
    /\ result = <<>>
    /\ prevResult = <<>>
    /\ calls = 0
    /\ iters = 0
    /\ NoMatcher

\* OpenCVMatcher._nms, lines 57-60: the empty list returns at once
NmsEnter ==
    /\ pc = "cv_call"
    /\ iters' = 0
    /\ IF boxes = <<>>
       THEN /\ pc' = "cv_done"
            /\ result' = <<>>
            /\ calls' = calls + 1
            /\ UNCHANGED <<boxes_sorted, picked>>
       ELSE /\ pc' = "cv_loop"
            /\ boxes_sorted' = SortByScore(boxes)
            /\ picked' = <<>>
            /\ UNCHANGED <<result, calls>>
    /\ UNCHANGED <<boxes, iou_thr, prevResult>>
    /\ UNCHANGED matchVars

\* lines 71-74
NmsStep ==
    /\ pc = "cv_loop"
    /\ boxes_sorted # <<>>
    /\ LET st == NmsIterate(<<boxes_sorted, picked>>, iou_thr)
       IN  /\ boxes_sorted' = st[1]
           /\ picked' = st[2]
    /\ iters' = iters + 1
    /\ UNCHANGED <<pc, boxes, iou_thr, result, prevResult, calls>>
    /\ UNCHANGED matchVars

\* line 75
NmsReturn ==
    /\ pc = "cv_loop"
    /\ boxes_sorted = <<>>
    /\ result' = picked
    /\ calls' = calls + 1
    /\ pc' = "cv_done"
    /\ UNCHANGED <<boxes, iou_thr, boxes_sorted, picked, prevResult, iters>>
    /\ UNCHANGED matchVars

\* RekognitionService._nms, lines 297-307
RekNmsEnter ==
    /\ pc = "rek_call"
    /\ iters' = 0
    /\ IF boxes = <<>>
       THEN /\ pc' = "rek_done"
            /\ result' = <<>>
            /\ calls' = calls + 1
            /\ UNCHANGED <<boxes_sorted, picked>>
       ELSE /\ pc' = "rek_loop"
            /\ boxes_sorted' = SortByArea(boxes)
            /\ picked' = <<>>
            /\ UNCHANGED <<result, calls>>
    /\ UNCHANGED <<boxes, iou_thr, prevResult>>
    /\ UNCHANGED matchVars

\* lines 308-311
RekNmsStep ==
    /\ pc = "rek_loop"
    /\ boxes_sorted # <<>>
    /\ LET st == RekNmsIterate(<<boxes_sorted, picked>>, iou_thr)
       IN  /\ boxes_sorted' = st[1]
           /\ picked' = st[2]
    /\ iters' = iters + 1
    /\ UNCHANGED <<pc, boxes, iou_thr, result, prevResult, calls>>
    /\ UNCHANGED matchVars

\* line 312
RekNmsReturn ==
    /\ pc = "rek_loop"
    /\ boxes_sorted = <<>>
    /\ result' = picked
    /\ calls' = calls + 1
    /\ pc' = "rek_done"
    /\ UNCHANGED <<boxes, iou_thr, boxes_sorted, picked, prevResult, iters>>
    /\ UNCHANGED matchVars

\* The caller hands the returned list to the same function again, with the
\* same threshold.
NmsAgain ==
    /\ pc \in {"cv_done", "rek_done"}
    /\ calls = 1
    /\ prevResult' = result
    /\ boxes' = result
    /\ pc' = IF pc = "cv_done" THEN "cv_call" ELSE "rek_call"
    /\ boxes_sorted' = <<>>
    /\ picked' = <<>>
    /\ UNCHANGED <<iou_thr, result, calls, iters>>
    /\ UNCHANGED matchVars

NextNms ==
    \/ NmsEnter
    \/ NmsStep
    \/ NmsReturn
    \/ RekNmsEnter
    \/ RekNmsStep
    \/ RekNmsReturn
    \/ NmsAgain

SpecNms == InitNms /\ [][NextNms]_vars

----------------------------------------------------------------------------
(* Claims about _nms *)

Count(seq, r) == Cardinality({ i \in DOMAIN seq : seq[i] = r })

CvReturned == pc = "cv_done"

\* C1: what OpenCVMatcher._nms returns holds only detections of its input,
\* each (name, score, box and scale together) at most as often as the input
\* holds it, and is no longer than the input.
C1_NmsSubset ==
    CvReturned =>
        /\ Len(result) <= Len(boxes)
        /\ \A i \in DOMAIN result :
              /\ \E j \in DOMAIN boxes : boxes[j] = result[i]
              /\ Count(result, result[i]) <= Count(boxes, result[i])

\* A call whose input holds the same detection twice and an inverted box, and
\* returns fewer detections than it was given.
C1_Witness ==
    /\ CvReturned
    /\ calls = 1
    /\ Len(boxes) = 3
    /\ Len(result) = 2
    /\ \E i, j \in DOMAIN boxes : i < j /\ boxes[i] = boxes[j]
    /\ \E i \in DOMAIN boxes : boxes[i].box[3] < boxes[i].box[1]

\* C2: _nms applied to the list _nms returned, with the same threshold,
\* returns that list again, in the same order.
C2_NmsIdempotent ==
    (CvReturned /\ calls = 2) => result = prevResult

\* A second call on a returned list of two or more detections, two of them
\* with equal scores.
C2_Witness ==
    /\ CvReturned
    /\ calls = 2
    /\ Len(prevResult) >= 2
    /\ \E i, j \in DOMAIN prevResult :
          i < j /\ prevResult[i].score = prevResult[j].score
                /\ prevResult[i] # prevResult[j]

IouGeq(a, b, thr) == ~FracLess(Iou(a, b), thr)

\* C8: in the returned list any two detections have IoU < iou_thr; every
\* input detection that was dropped has IoU >= iou_thr with a returned
\* detection whose score is at least its own; and of two candidates with
\* IoU >= iou_thr and different scores only the higher-scoring is returned.
C8_GreedyRule ==
    CvReturned =>
        /\ \A i, j \in DOMAIN result :
              i < j => FracLess(Iou(result[i].box, result[j].box), iou_thr)
        /\ \A i \in DOMAIN boxes :
              Count(result, boxes[i]) < Count(boxes, boxes[i]) =>
                 \E k \in DOMAIN result :
                    /\ IouGeq(result[k].box, boxes[i].box, iou_thr)
                    /\ result[k].score >= boxes[i].score
        /\ (/\ Len(boxes) = 2
            /\ boxes[1].score # boxes[2].score
            /\ IouGeq(boxes[1].box, boxes[2].box, iou_thr))
           => result = << IF boxes[1].score > boxes[2].score THEN boxes[1] ELSE boxes[2] >>

\* The scenario of the claim in units of 5 pixels, the lower-scoring box
\* first in the input: (0,0,50,50) at 0.9 and (5,5,55,55) at 0.8, threshold 0.4.
C8_Witness ==
    /\ CvReturned
    /\ iou_thr = <<2, 5>>
    /\ boxes = << Det("b", 80, <<1, 1, 11, 11>>, <<1, 1>>),
                  Det("a", 90, <<0, 0, 10, 10>>, <<1, 1>>) >>
    /\ result = << Det("a", 90, <<0, 0, 10, 10>>, <<1, 1>>) >>

\* C9: the returned list is in non-increasing score order, detections of
\* equal score in their input order, and its first element is the earliest
\* maximum-score detection of the input.
C9_NmsOrder ==
    CvReturned =>
        /\ \A i, j \in DOMAIN result : i < j => result[i].score >= result[j].score
        /\ \E idx \in [DOMAIN result -> DOMAIN boxes] :
              /\ \A i \in DOMAIN result : boxes[idx[i]] = result[i]
              /\ \A i, j \in DOMAIN result :
                    (i < j /\ result[i].score = result[j].score) => idx[i] < idx[j]
        /\ boxes # <<>> =>
              /\ result # <<>>
              /\ \E m \in DOMAIN boxes :
                    /\ \A j \in DOMAIN boxes : boxes[j].score <= boxes[m].score
                    /\ \A j \in DOMAIN boxes : j < m => boxes[j].score < boxes[m].score
                    /\ result[1] = boxes[m]

\* An unsorted input whose two top-scoring detections tie, differ, and are
\* both returned.
C9_Witness ==
    /\ CvReturned
    /\ calls = 1
    /\ Len(boxes) = 3
    /\ boxes[1].score < boxes[2].score
    /\ boxes[2].score = boxes[3].score
    /\ boxes[2] # boxes[3]
    /\ result = <<boxes[2], boxes[3], boxes[1]>>

InputBoxes ==
    IF pc \in {"cv_call", "cv_loop", "cv_done"}
    THEN { boxes[i].box : i \in DOMAIN boxes }
    ELSE { boxes[i] : i \in DOMAIN boxes }

\* C10: for any two boxes of a candidate list, the iou helper of
\* OpenCVMatcher._nms and the one of RekognitionService._nms give the same
\* value for (a, b) as for (b, a).
C10_IouSymmetric ==
    \A a, b \in InputBoxes :
        /\ Iou(a, b) = Iou(b, a)
        /\ RekIou(a, b) = RekIou(b, a)

\* The loop has compared an inverted box, a zero-area box and a box that
\* overlaps another one of a different area.
C10_Witness ==
    /\ pc \in {"cv_loop", "rek_loop"}
    /\ iters >= 1
    /\ \E a \in InputBoxes : a[3] < a[1]
    /\ \E a, b \in InputBoxes : Inter(a, b) > 0 /\ Area(a) # Area(b)

----------------------------------------------------------------------------
(* The matcher: pools of its inputs *)

MaxTemplates == 2
MaxScales == 2
MaxPeaks == 2

\* max(10, ...) of the resized template's sides
MinSide == 10

\* 1e-3 of match_article_style, as its inverse
ScaleTolInv == 1000

TicketPool == { <<11, 10>> }

\* <<w, h>>: fits at both scales with two sizes; fits at 1.0 only; too wide
\* at every scale; too high at every scale
ShapePool == { <<9, 8>>, <<10, 9>>, <<12, 8>>, <<8, 12>> }

ScalePool == { <<1, 1>>, <<5, 4>> }
ScorePool == { 60, 90 }
MatchThrPool == { 50, 90 }
CapPool == { 1, 2 }

\* nms_iou of the matcher's calls: the default 0.4, and 1
NmsIouPool == { <<2, 5>>, <<1, 1>> }

\* <<use_clahe, use_edges>>
MatcherPool == { <<TRUE, TRUE>>, <<FALSE, FALSE>> }

TplNames == <<"a", "b", "c", "d">>

----------------------------------------------------------------------------
(* The matcher: its functions *)

\* <<tw, th>> = <<max(10, int(tg.shape[1] * s)), max(10, int(tg.shape[0] * s))>>
Resized(shape, s) ==
    << Max(MinSide, (shape[1] * s[1]) \div s[2]),
       Max(MinSide, (shape[2] * s[1]) \div s[2]) >>

\* The mutant of Oversized: the width is not compared.
OversizedHeightOnly(size, img) == size[2] > img[2]

\* th > H or tw > W, and the same test on the shapes after the resize
Oversized(size, img) == size[2] > img[2] \/ size[1] > img[1]

\* cv2.matchTemplate needs a template no larger than the image
CvTemplateFits(size, img) == size[1] <= img[1] /\ size[2] <= img[2]

\* The locations <<x, y>> of a (H - th + 1) x (W - tw + 1) surface, in the
\* row-major order in which np.where lists them
SurfacePositions(size, img) ==
    LET nx == img[1] - size[1] + 1
        ny == img[2] - size[2] + 1
    IN  [k \in 1..(nx * ny) |-> << (k - 1) % nx, (k - 1) \div nx >>]

PositionSet(size, img) ==
    LET ps == SurfacePositions(size, img) IN { ps[k] : k \in DOMAIN ps }

\* The mutant of Hits: the comparison with the threshold is inverted.
HitsBelow(res, size, img, thr) ==
    SelectSeq(SurfacePositions(size, img), LAMBDA q : res[q] <= thr)

\* The mutant of Hits: a score equal to the threshold is not accepted.
HitsStrict(res, size, img, thr) ==
    SelectSeq(SurfacePositions(size, img), LAMBDA q : res[q] > thr)

\* ys, xs = np.where(res >= threshold); zip(xs, ys)
Hits(res, size, img, thr) ==
    SelectSeq(SurfacePositions(size, img), LAMBDA q : res[q] >= thr)

\* The mutant of BoxAt: tw and th are exchanged.
BoxAtSwapped(q, size) == << q[1], q[2], q[1] + size[2], q[2] + size[1] >>

\* box = (x, y, x + tw, y + th)
BoxAt(q, size) == << q[1], q[2], q[1] + size[1], q[2] + size[2] >>

\* for (x, y) in zip(xs, ys): dets.append(...); if len(dets) >= cap: break
RECURSIVE Collect(_, _, _)
Collect(dets, cands, cap) ==
    IF cands = <<>> THEN dets
    ELSE LET more == Append(dets, Head(cands))
         IN  IF Len(more) >= cap THEN more ELSE Collect(more, Tail(cands), cap)

\* The candidates of one surface, in np.where order
Candidates(name, s, size, res, thr) ==
    LET hs == Hits(res, size, ticket, thr)
    IN  [k \in DOMAIN hs |-> Det(name, res[hs[k]], BoxAt(hs[k], size), s)]

\* A running call is [dets, log, raised]: the candidates so far, the sizes
\* cv2.matchTemplate was called with, and whether it raised.
NewRun == [dets |-> <<>>, log |-> <<>>, raised |-> FALSE]

\* The body of "for s in scales" of match_single_template, for template i
ScalePass(run, i, s, thr, cap) ==
    LET size == Resized(templates[i].shape, s)
    IN  IF run.raised THEN run
        ELSE IF Oversized(size, ticket) THEN run
        ELSE IF ~CvTemplateFits(size, ticket)
             THEN [run EXCEPT !.log = Append(@, size), !.raised = TRUE]
        ELSE [run EXCEPT
                !.log = Append(@, size),
                !.dets = Collect(@, Candidates(templates[i].name, s, size,
                                               corr[i][size], thr), cap)]

RECURSIVE Sweep(_, _, _, _, _)
Sweep(run, i, scales, thr, cap) ==
    IF scales = <<>> THEN run
    ELSE Sweep(ScalePass(run, i, Head(scales), thr, cap), i, Tail(scales), thr, cap)

\* The mutant of MatchSingle: an empty scale list is replaced by a default
\* one, as "scales or [...]" would.
MatchSingleDefaulting(i, thr, scales, cap) ==
    Sweep(NewRun, i, IF scales = <<>> THEN << <<1, 1>> >> ELSE scales, thr, cap)

\* The mutant of MatchSingle: the matcher keeps what the last call returned
\* and hands it out again.
MatchSingleCached(i, thr, scales, cap) ==
    IF calls >= 1 THEN [dets |-> result, log |-> corrLog, raised |-> FALSE]
    ELSE Sweep(NewRun, i, scales, thr, cap)

\* match_single_template(ticket_img, templates[i], name, threshold, scales, cap)
MatchSingle(i, thr, scales, cap) == Sweep(NewRun, i, scales, thr, cap)

\* The mutant of Gather: a template without candidates ends the loop over
\* the mapping.
RECURSIVE GatherUntilEmpty(_, _, _, _, _)
GatherUntilEmpty(run, i, thr, scales, cap) ==
    IF i > Len(templates) \/ run.raised THEN run
    ELSE LET one == MatchSingle(i, thr, scales, cap)
         IN  IF one.dets = <<>> THEN run
             ELSE GatherUntilEmpty([one EXCEPT !.dets = run.dets \o @, !.log = run.log \o @],
                                   i + 1, thr, scales, cap)

\* for name, tpl in templates.items(): all_dets.extend(match_single_template(...))
RECURSIVE Gather(_, _, _, _, _)
Gather(run, i, thr, scales, cap) ==
    IF i > Len(templates) \/ run.raised THEN run
    ELSE Gather([MatchSingle(i, thr, scales, cap) EXCEPT
                    !.dets = run.dets \o @, !.log = run.log \o @],
                i + 1, thr, scales, cap)

RECURSIVE GatherNms(_, _, _, _, _, _)
GatherNms(run, i, thr, scales, cap, nms_iou) ==
    IF i > Len(templates) \/ run.raised THEN run
    ELSE GatherNms([MatchSingle(i, thr, scales, cap) EXCEPT
                       !.dets = run.dets \o Nms(@, nms_iou), !.log = run.log \o @],
                   i + 1, thr, scales, cap, nms_iou)

\* The mutant of MatchMultiple: _nms runs on each template's candidates and
\* the merged list is returned as it is.
MatchMultiplePerTemplate(thr, scales, nms_iou, cap) ==
    GatherNms(NewRun, 1, thr, scales, cap, nms_iou)

\* The mutant of MatchMultiple: the merged list is returned without _nms.
MatchMultipleNoNms(thr, scales, nms_iou, cap) == Gather(NewRun, 1, thr, scales, cap)

\* match_multiple(ticket_img, templates, threshold, scales, nms_iou, cap)
MatchMultiple(thr, scales, nms_iou, cap) ==
    LET all == Gather(NewRun, 1, thr, scales, cap)
    IN  [all EXCEPT !.dets = Nms(@, nms_iou)]

\* match_multiple on the mapping that holds templates[order[1]],
\* templates[order[2]], ... in this order: templates.items() yields the
\* entries in insertion order, and each template is matched against the
\* target on its own.
RECURSIVE GatherOver(_, _, _, _, _)
GatherOver(run, order, thr, scales, cap) ==
    IF order = <<>> \/ run.raised THEN run
    ELSE GatherOver([MatchSingle(Head(order), thr, scales, cap) EXCEPT
                        !.dets = run.dets \o @, !.log = run.log \o @],
                    Tail(order), thr, scales, cap)

MatchMultipleOver(order, thr, scales, nms_iou, cap) ==
    LET all == GatherOver(NewRun, order, thr, scales, cap)
    IN  [all EXCEPT !.dets = Nms(@, nms_iou)]

\* th < 10 or tw < 10 or th > g.shape[0] or tw > g.shape[1]
BestSkips(size, img) ==
    size[2] < MinSide \/ size[1] < MinSide \/ size[2] > img[2] \/ size[1] > img[1]

\* The mutant of MaxLoc: minLoc is taken for maxLoc.
MaxLocIsMinLoc(res, size, img) ==
    LET ps == SurfacePositions(size, img)
        k  == CHOOSE j \in DOMAIN ps :
                 /\ \A m \in DOMAIN ps : res[ps[m]] >= res[ps[j]]
                 /\ \A m \in DOMAIN ps : m < j => res[ps[m]] > res[ps[j]]
    IN  ps[k]

\* maxLoc of cv2.minMaxLoc: the first location of the maximum in scan order
MaxLoc(res, size, img) ==
    LET ps == SurfacePositions(size, img)
        k  == CHOOSE j \in DOMAIN ps :
                 /\ \A m \in DOMAIN ps : res[ps[m]] <= res[ps[j]]
                 /\ \A m \in DOMAIN ps : m < j => res[ps[m]] < res[ps[j]]
    IN  ps[k]

\* The mutant of BestPass: a candidate that ties with best replaces it.
BestPassLastTie(run, i, s) ==
    LET size == Resized(templates[i].shape, s)
    IN  IF run.raised THEN run
        ELSE IF BestSkips(size, ticket) THEN run
        ELSE IF ~CvTemplateFits(size, ticket)
             THEN [run EXCEPT !.log = Append(@, size), !.raised = TRUE]
        ELSE LET res  == corr[i][size]
                 loc  == MaxLoc(res, size, ticket)
                 cand == Det(templates[i].name, res[loc], BoxAt(loc, size), s)
             IN  [run EXCEPT
                    !.log = Append(@, size),
                    !.dets = IF @ = <<>> \/ cand.score >= @[1].score THEN <<cand>> ELSE @]

\* The body of "for s in scales" of find_best_of_templates, for template i;
\* run.dets is best: <<>> for None, else one Detection.
BestPass(run, i, s) ==
    LET size == Resized(templates[i].shape, s)
    IN  IF run.raised THEN run
        ELSE IF BestSkips(size, ticket) THEN run
        ELSE IF ~CvTemplateFits(size, ticket)
             THEN [run EXCEPT !.log = Append(@, size), !.raised = TRUE]
        ELSE LET res  == corr[i][size]
                 loc  == MaxLoc(res, size, ticket)
                 cand == Det(templates[i].name, res[loc], BoxAt(loc, size), s)
             IN  [run EXCEPT
                    !.log = Append(@, size),
                    !.dets = IF @ = <<>> \/ cand.score > @[1].score THEN <<cand>> ELSE @]

RECURSIVE BestSweep(_, _, _)
BestSweep(run, i, scales) ==
    IF scales = <<>> THEN run
    ELSE BestSweep(BestPass(run, i, Head(scales)), i, Tail(scales))

RECURSIVE BestOver(_, _, _)
BestOver(run, i, scales) ==
    IF i > Len(templates) THEN run
    ELSE BestOver(BestSweep(run, i, scales), i + 1, scales)

\* find_best_of_templates(ticket_img, templates, scales)
FindBest(scales) == BestOver(NewRun, 1, scales)

\* abs(tpl_scale - 1.0) > 1e-3
ScaleDiffers(s) ==
    (IF s[1] >= s[2] THEN s[1] - s[2] ELSE s[2] - s[1]) * ScaleTolInv > s[2]

\* th, tw = tg.shape[:2] of match_article_style: the template is resized
\* only when the scale differs from 1.0
ArticleSize(shape, s) == IF ScaleDiffers(s) THEN Resized(shape, s) ELSE shape

\* if th > H or tw > W: return []
ArticleOversized(size, img) == size[2] > img[2] \/ size[1] > img[1]

\* match_article_style(ticket_img, templates[i], name, threshold, tpl_scale,
\* nms_iou, max_hits), where res is what cv2.matchTemplate returns for the
\* two gray images
MatchArticle(i, thr, s, nms_iou, max_hits, res) ==
    LET size == ArticleSize(templates[i].shape, s)
    IN  IF ArticleOversized(size, ticket) THEN NewRun
        ELSE IF ~CvTemplateFits(size, ticket)
             THEN [NewRun EXCEPT !.log = <<size>>, !.raised = TRUE]
        ELSE [dets   |-> Nms(Collect(<<>>, Candidates(templates[i].name, s, size, res, thr),
                                     max_hits), nms_iou),
              log    |-> <<size>>,
              raised |-> FALSE]

----------------------------------------------------------------------------
(* The caller of the matcher: one matcher, one target, one template        *)
(* mapping.  It calls match_multiple or find_best_of_templates on the      *)
(* mapping; when the mapping holds one template, it may instead hand that  *)
(* template to match_single_template or match_article_style, and may       *)
(* repeat a match_single_template call with another threshold.             *)

Range(q) == { q[k] : k \in DOMAIN q }

LoScore == CHOOSE v \in ScorePool : \A u \in ScorePool : v <= u
HiScore == CHOOSE v \in ScorePool : \A u \in ScorePool : v >= u

\* The surfaces of one template size: at most MaxPeaks locations score high
SurfacePool(size, img) ==
    { [q \in PositionSet(size, img) |-> IF q \in P THEN HiScore ELSE LoScore] :
        P \in { Range(ps) : ps \in SeqsUpTo(PositionSet(size, img), MaxPeaks) } }

\* The sizes the sweep can correlate a template of this shape at
SweepSizes(shape, img) ==
    { sz \in { Resized(shape, s) : s \in ScalePool } : CvTemplateFits(sz, img) }

CorrPool(shape, img) ==
    LET sizes == SweepSizes(shape, img)
        all   == UNION { SurfacePool(sz, img) : sz \in sizes }
    IN  { f \in [sizes -> all] : \A sz \in sizes : f[sz] \in SurfacePool(sz, img) }

TemplateLists ==
    UNION { [1..n -> ShapePool] : n \in 0..MaxTemplates }

MkArgs(op, i, thr, scales, cap, nms_iou) ==
    [op |-> op, tpl |-> i, threshold |-> thr, scales |-> scales, cap |-> cap,
     nms_iou |-> nms_iou]

NoArgs == MkArgs("none", 0, 0, <<>>, 0, <<0, 1>>)

\* The _nms caller of the first part takes no part in these behaviours.
NoNmsCaller ==
    /\ boxes = <<>>
    /\ iou_thr = <<0, 1>>
    /\ boxes_sorted = <<>>
    /\ picked = <<>>
    /\ iters = 0

InitMatch ==
    /\ \E m \in MatcherPool : use_clahe = m[1] /\ use_edges = m[2]
    /\ \E c \in CannyPool : canny_low = c[1] /\ canny_high = c[2]
    /\ ticket \in TicketPool
    /\ \E shapes \in TemplateLists :
          templates = [k \in DOMAIN shapes |-> [name |-> TplNames[k], shape |-> shapes[k]]]
    /\ corr \in { c \in [DOMAIN templates ->
                           UNION { CorrPool(templates[k].shape, ticket) : k \in DOMAIN templates }] :
                    \A k \in DOMAIN templates : c[k] \in CorrPool(templates[k].shape, ticket) }
    /\ pc = "idle"
    /\ args = NoArgs
    /\ prevArgs = NoArgs
    /\ result = <<>>
    /\ prevResult = <<>>
    /\ corrLog = <<>>
    /\ raised = FALSE
    /\ searches = <<>>
    /\ validator = <<>>
    /\ calls = 0
    /\ NoNmsCaller

nmsLocals == <<boxes, iou_thr, boxes_sorted, picked, iters>>
inputs == <<use_clahe, use_edges, canny_low, canny_high, ticket, templates, corr>>

\* What a call that ran as `run` leaves behind
Returns(run, done) ==
    /\ pc' = IF run.raised THEN "raised" ELSE done
    /\ result' = IF run.raised THEN <<>> ELSE run.dets
    /\ corrLog' = run.log
    /\ raised' = run.raised
    /\ calls' = calls + 1

CallSingle ==
    /\ pc = "idle"
    /\ Len(templates) = 1
    /\ \E i \in DOMAIN templates, thr \in MatchThrPool, cap \in CapPool,
          scales \in SeqsUpTo(ScalePool, MaxScales) :
          /\ args' = MkArgs("single", i, thr, scales, cap, <<0, 1>>)
          /\ \E run \in { MatchSingle(i, thr, scales, cap) } : Returns(run, "single_done")
    /\ UNCHANGED <<prevArgs, prevResult, inputs, nmsLocals, searches, validator>>

\* The same call again with a threshold of the caller's choice
SingleAgain ==
    /\ pc = "single_done"
    /\ calls = 1
    /\ \E thr \in MatchThrPool :
          /\ args' = [args EXCEPT !.threshold = thr]
          /\ \E run \in { MatchSingle(args.tpl, thr, args.scales, args.cap) } :
                Returns(run, "single_done")
    /\ prevArgs' = args
    /\ prevResult' = result
    /\ UNCHANGED <<inputs, nmsLocals, searches, validator>>

CallMultiple ==
    /\ pc = "idle"
    /\ \E thr \in MatchThrPool, cap \in CapPool, nms_iou \in NmsIouPool,
          scales \in SeqsUpTo(ScalePool, MaxScales) :
          /\ args' = MkArgs("multiple", 0, thr, scales, cap, nms_iou)
          /\ \E run \in { MatchMultiple(thr, scales, nms_iou, cap) } :
                Returns(run, "multiple_done")
    /\ UNCHANGED <<prevArgs, prevResult, inputs, nmsLocals, searches, validator>>

CallBest ==
    /\ pc = "idle"
    /\ \E scales \in SeqsUpTo(ScalePool, MaxScales) :
          /\ args' = MkArgs("best", 0, 0, scales, 0, <<0, 1>>)
          /\ \E run \in { FindBest(scales) } : Returns(run, "best_done")
    /\ UNCHANGED <<prevArgs, prevResult, inputs, nmsLocals, searches, validator>>

\* The surfaces of the two gray images: the matcher's own when it does not
\* preprocess and the sweep correlates the same resized template
ArticleSurfaces(i, size) ==
    IF ~CvTemplateFits(size, ticket) THEN { <<>> }
    ELSE IF ~use_clahe /\ ~use_edges /\ size \in DOMAIN corr[i] THEN { corr[i][size] }
    ELSE SurfacePool(size, ticket)

CallArticle ==
    /\ pc = "idle"
    /\ Len(templates) = 1
    /\ \E i \in DOMAIN templates, thr \in MatchThrPool, cap \in CapPool,
          nms_iou \in NmsIouPool, s \in ScalePool :
          \E res \in ArticleSurfaces(i, ArticleSize(templates[i].shape, s)) :
             /\ args' = MkArgs("article", i, thr, <<s>>, cap, nms_iou)
             /\ \E run \in { MatchArticle(i, thr, s, nms_iou, cap, res) } :
                   Returns(run, "article_done")
    /\ UNCHANGED <<prevArgs, prevResult, inputs, nmsLocals, searches, validator>>

NextMatch ==
    \/ CallSingle
    \/ SingleAgain
    \/ CallMultiple
    \/ CallBest
    \/ CallArticle

SpecMatch == InitMatch /\ [][NextMatch]_vars

----------------------------------------------------------------------------
(* Claims about degenerate boxes in _nms *)

\* A box of zero width or zero height, or of zero area by area()'s max(0, .)
Degenerate(b) == b[3] - b[1] = 0 \/ b[4] - b[2] = 0 \/ Area(b) = 0

PositiveThr == iou_thr[1] > 0

\* The IoU of every pair with a degenerate box among the candidates is 0 over
\* a positive denominator.
DegenerateIouZero ==
    \A i, j \in DOMAIN boxes :
        Degenerate(boxes[i].box) =>
            /\ Iou(boxes[i].box, boxes[j].box)[1] = 0
            /\ Iou(boxes[i].box, boxes[j].box)[2] > 0
            /\ Iou(boxes[j].box, boxes[i].box)[1] = 0
            /\ Iou(boxes[j].box, boxes[i].box)[2] > 0

\* C20: in OpenCVMatcher._nms with iou_thr > 0 a candidate whose box has zero
\* width or height has IoU 0 with every candidate, over a non-zero
\* denominator; a pass of the loop that accepts it removes no candidate; no
\* pass removes it; and the returned list holds every such candidate as often
\* as the input holds it.
C20_DegenerateBoxes ==
    [][ (PositiveThr /\ pc \in {"cv_call", "cv_loop"}) =>
          /\ DegenerateIouZero
          /\ (pc = "cv_loop" /\ boxes_sorted # <<>>) =>
                LET cur  == Head(boxes_sorted)
                    rest == Tail(boxes_sorted)
                IN  /\ Degenerate(cur.box) => boxes_sorted' = rest
                    /\ \A i \in DOMAIN rest :
                          Degenerate(rest[i].box) =>
                              Count(boxes_sorted', rest[i]) = Count(rest, rest[i])
          /\ pc' = "cv_done" =>
                \A i \in DOMAIN boxes :
                    Degenerate(boxes[i].box) =>
                        Count(result', boxes[i]) = Count(boxes, boxes[i])
      ]_vars

\* A returned call with a positive threshold on three candidates: a
\* zero-width box twice and a higher-scoring box around it; all three are
\* returned.
C20_Witness ==
    /\ CvReturned
    /\ PositiveThr
    /\ Len(boxes) = 3
    /\ \E i, j, k \in DOMAIN boxes :
          /\ i # j
          /\ boxes[i] = boxes[j]
          /\ boxes[i].box[3] = boxes[i].box[1]
          /\ boxes[k].score > boxes[i].score
          /\ boxes[k].box[1] <= boxes[i].box[1] /\ boxes[i].box[3] <= boxes[k].box[3]
          /\ boxes[k].box[2] <= boxes[i].box[2] /\ boxes[i].box[4] <= boxes[k].box[4]
          /\ Count(result, boxes[i]) = 2
    /\ Len(result) = 3

----------------------------------------------------------------------------
(* Claims about the matcher *)

SingleReturned == pc = "single_done"

\* C3: match_single_template returns at most max_per_template detections.
C3_CapBound ==
    SingleReturned => Len(result) <= args.cap

Exceeds(size) == size[1] > ticket[1] \/ size[2] > ticket[2]

SizeAt(i, s) == Resized(templates[i].shape, s)

\* C4: a match_single_template call does not raise; cv2.matchTemplate is
\* called once for each scale whose resized template fits the target and
\* never for one that exceeds it; no returned detection has such a scale;
\* and when every scale exceeds the target the call returns [].
C4_ScaleGuard ==
    (args.op = "single" /\ calls >= 1) =>
        /\ pc # "raised"
        /\ ~raised
        /\ \A k \in DOMAIN corrLog : ~Exceeds(corrLog[k])
        /\ Len(corrLog) =
              Cardinality({ k \in DOMAIN args.scales : ~Exceeds(SizeAt(args.tpl, args.scales[k])) })
        /\ \A k \in DOMAIN result : ~Exceeds(SizeAt(args.tpl, result[k].scale))
        /\ (\A k \in DOMAIN args.scales : Exceeds(SizeAt(args.tpl, args.scales[k])))
              => result = <<>>

\* A sweep whose first scale exceeds the target and whose second fits and
\* yields candidates.
C4_Witness ==
    /\ SingleReturned
    /\ Len(args.scales) = 2
    /\ Exceeds(SizeAt(args.tpl, args.scales[1]))
    /\ ~Exceeds(SizeAt(args.tpl, args.scales[2]))
    /\ Len(corrLog) = 1
    /\ result # <<>>

\* A sweep of a template that exceeds the target at both of its scales.
C4_WitnessAllOversized ==
    /\ SingleReturned
    /\ Len(args.scales) = 2
    /\ \A k \in DOMAIN args.scales : Exceeds(SizeAt(args.tpl, args.scales[k]))
    /\ result = <<>>

\* C5: of two match_single_template calls that differ in the threshold only,
\* the one with the higher threshold returns no more detections.
C5_ThresholdMonotone ==
    (SingleReturned /\ calls = 2) =>
        /\ prevArgs.threshold <= args.threshold => Len(result) <= Len(prevResult)
        /\ args.threshold <= prevArgs.threshold => Len(prevResult) <= Len(result)

\* The threshold was raised, the first call reached its cap, and the second
\* call returns fewer detections.
C5_Witness ==
    /\ SingleReturned
    /\ calls = 2
    /\ prevArgs.threshold < args.threshold
    /\ Len(prevResult) >= args.cap
    /\ Len(args.scales) = 2
    /\ result # <<>>
    /\ Len(result) < Len(prevResult)

RECURSIVE Flatten(_)
Flatten(parts) == IF parts = <<>> THEN <<>> ELSE Head(parts) \o Flatten(Tail(parts))

SinglesOf(a) ==
    [k \in DOMAIN templates |-> MatchSingle(k, a.threshold, a.scales, a.cap).dets]

\* C6: match_multiple returns _nms of the concatenation, in mapping order,
\* of what match_single_template returns for each template; the single pass
\* leaves no two detections with IoU >= nms_iou, of whichever templates.
C6_MultipleIsNmsOfConcat ==
    pc = "multiple_done" =>
        /\ result = Nms(Flatten(SinglesOf(args)), args.nms_iou)
        /\ \A j, k \in DOMAIN result :
              j < k => FracLess(Iou(result[j].box, result[k].box), args.nms_iou)

\* A candidate of the second template that _nms would keep among that
\* template's own candidates is suppressed by a detection of the first.
C6_Witness ==
    /\ pc = "multiple_done"
    /\ Len(templates) = 2
    /\ \E d \in Range(Nms(SinglesOf(args)[2], args.nms_iou)) :
          /\ d \notin Range(result)
          /\ \E r \in Range(result) :
                r.name = templates[1].name /\ IouGeq(r.box, d.box, args.nms_iou)

ShapeOfName(n) == templates[CHOOSE k \in DOMAIN templates : templates[k].name = n].shape

UsedSize(d) ==
    IF args.op = "article" THEN ArticleSize(ShapeOfName(d.name), d.scale)
    ELSE Resized(ShapeOfName(d.name), d.scale)

\* C7: every detection a matching function returns has its box inside the
\* target, with the width and height of the template as resized for the
\* detection's scale.
C7_BoxesInside ==
    pc \in {"single_done", "multiple_done", "best_done", "article_done"} =>
        \A k \in DOMAIN result :
            LET b == result[k].box
                size == UsedSize(result[k])
            IN  /\ 0 <= b[1] /\ b[1] < b[3] /\ b[3] <= ticket[1]
                /\ 0 <= b[2] /\ b[2] < b[4] /\ b[4] <= ticket[2]
                /\ b[3] - b[1] = size[1]
                /\ b[4] - b[2] = size[2]

\* match_multiple returns two detections of different sizes, one of them
\* against the right and bottom edges of the target.
C7_Witness ==
    /\ pc = "multiple_done"
    /\ \E j, k \in DOMAIN result :
          /\ UsedSize(result[j]) # UsedSize(result[k])
          /\ UsedSize(result[k])[1] # UsedSize(result[k])[2]
          /\ result[k].box[3] = ticket[1]
          /\ result[k].box[4] = ticket[2]

\* The (template, scale) pairs of a find_best_of_templates call in the order
\* the two loops visit them: pair n is template (n-1) \div L + 1, scale
\* (n-1) % L + 1, for L scales.
BestPairs ==
    LET L == Len(args.scales)
    IN  [n \in 1..(Len(templates) * L) |-> << ((n - 1) \div L) + 1, ((n - 1) % L) + 1 >>]

PairSize(p) == Resized(templates[p[1]].shape, args.scales[p[2]])

PairFits(p) == PairSize(p)[1] <= ticket[1] /\ PairSize(p)[2] <= ticket[2]

\* The highest score of the surface of a fitting pair
PairMax(p) ==
    LET res == corr[p[1]][PairSize(p)]
    IN  CHOOSE v \in Range(res) : \A u \in Range(res) : u <= v

ValidPairs == { n \in DOMAIN BestPairs : PairFits(BestPairs[n]) }

\* C11: find_best_of_templates returns None exactly when no (template, scale)
\* pair fits the target; otherwise it returns one Detection whose score is
\* the maximum over all fitting pairs, taken at a location of that score on
\* the surface of the first pair, in template-then-scale order, that reaches
\* this maximum, with that pair's name, scale and size.
C11_BestOfTemplates ==
    pc = "best_done" =>
        IF ValidPairs = {} THEN result = <<>>
        ELSE LET top == CHOOSE n \in ValidPairs :
                            /\ \A m \in ValidPairs : PairMax(BestPairs[m]) <= PairMax(BestPairs[n])
                            /\ \A m \in ValidPairs :
                                  m < n => PairMax(BestPairs[m]) < PairMax(BestPairs[n])
                 p   == BestPairs[top]
                 res == corr[p[1]][PairSize(p)]
             IN  /\ Len(result) = 1
                 /\ result[1].name = templates[p[1]].name
                 /\ result[1].scale = args.scales[p[2]]
                 /\ result[1].score = PairMax(p)
                 /\ \E q \in DOMAIN res :
                       /\ res[q] = PairMax(p)
                       /\ result[1].box = <<q[1], q[2], q[1] + PairSize(p)[1], q[2] + PairSize(p)[2]>>

\* Two templates reach the same maximum, an earlier fitting pair scores
\* lower, and another pair does not fit: the first template's detection is
\* returned.
C11_Witness ==
    /\ pc = "best_done"
    /\ Len(templates) = 2
    /\ Len(result) = 1
    /\ result[1].name = templates[1].name
    /\ \E n \in ValidPairs : PairMax(BestPairs[n]) < result[1].score
    /\ \E n \in ValidPairs :
          BestPairs[n][1] = 2 /\ PairMax(BestPairs[n]) = result[1].score
    /\ \E n \in DOMAIN BestPairs : n \notin ValidPairs

\* An empty mapping, an empty scale list, or no fitting pair: None.
C11_WitnessNone ==
    /\ pc = "best_done"
    /\ templates # <<>>
    /\ args.scales # <<>>
    /\ ValidPairs = {}
    /\ result = <<>>

\* C12: _nms of an empty list is []; a match_single_template call with an
\* empty scale list returns [] without raising and without correlating at
\* any scale (no default scale is swept); a match_multiple call with an
\* empty template mapping returns [] without raising.
C12_EmptyInputs ==
    /\ \A t \in ThrPool : Nms(<<>>, t) = <<>>
    /\ (args.op = "single" /\ args.scales = <<>>) =>
          pc = "single_done" /\ ~raised /\ result = <<>> /\ corrLog = <<>>
    /\ (args.op = "multiple" /\ templates = <<>>) =>
          pc = "multiple_done" /\ ~raised /\ result = <<>> /\ corrLog = <<>>

\* match_single_template was called with an empty scale list for a template
\* that fits the target at scale 1.0 with a location above the threshold.
C12_Witness ==
    /\ pc = "single_done"
    /\ args.scales = <<>>
    /\ LET size == Resized(templates[args.tpl].shape, <<1, 1>>)
       IN  /\ CvTemplateFits(size, ticket)
           /\ \E q \in DOMAIN corr[args.tpl][size] : corr[args.tpl][size][q] >= args.threshold
    /\ result = <<>>

\* match_multiple was called with an empty mapping and a non-empty scale list.
C12_WitnessEmptyMapping ==
    /\ pc = "multiple_done"
    /\ templates = <<>>
    /\ args.scales # <<>>
    /\ result = <<>>

----------------------------------------------------------------------------
(* A caller with a larger target and up to MaxTemplates + 1 templates: it   *)
(* builds the default matcher and calls match_multiple once with the whole  *)
(* sweep of ScalePool.  Every surface is quiet but for at most one peak.    *)

MappingTicketPool == { <<11, 11>> }

\* fits at both scales with two sizes; too wide at every scale
MappingShapePool == { <<9, 8>>, <<12, 8>> }

QuietPool == { 40 }
PeakPool == { <<0, 0>>, <<1, 1>> }
MappingThrPool == { 50 }
MappingIouPool == { <<2, 5>>, <<4, 5>> }

\* The scales of ScalePool in ascending order
RECURSIVE Ascending(_)
Ascending(S) ==
    IF S = {} THEN <<>>
    ELSE LET lo == CHOOSE s \in S : \A t \in S : s[1] * t[2] <= t[1] * s[2]
         IN  <<lo>> \o Ascending(S \ {lo})

ScaleSweep == Ascending(ScalePool)

PeakSurfacePool(size, img) ==
    LET ps == PositionSet(size, img)
    IN  { [q \in ps |-> v] : v \in QuietPool }
        \cup { [q \in ps |-> IF q = p THEN hi ELSE v] :
                 v \in QuietPool, p \in PeakPool \cap ps, hi \in ScorePool }

MappingCorrPool(shape, img) ==
    LET sizes == SweepSizes(shape, img)
        all   == UNION { PeakSurfacePool(sz, img) : sz \in sizes }
    IN  { f \in [sizes -> all] : \A sz \in sizes : f[sz] \in PeakSurfacePool(sz, img) }

MappingLists ==
    UNION { [1..n -> MappingShapePool] : n \in 0..(MaxTemplates + 1) }

InitMapping ==
    /\ use_clahe = TRUE
    /\ use_edges = TRUE
    /\ \E c \in CannyPool : canny_low = c[1] /\ canny_high = c[2]
    /\ ticket \in MappingTicketPool
    /\ \E shapes \in MappingLists :
          templates = [k \in DOMAIN shapes |-> [name |-> TplNames[k], shape |-> shapes[k]]]
    /\ corr \in { c \in [DOMAIN templates ->
                           UNION { MappingCorrPool(templates[k].shape, ticket) :
                                     k \in DOMAIN templates }] :
                    \A k \in DOMAIN templates : c[k] \in MappingCorrPool(templates[k].shape, ticket) }
    /\ pc = "idle"
    /\ args = NoArgs
    /\ prevArgs = NoArgs
    /\ result = <<>>
    /\ prevResult = <<>>
    /\ corrLog = <<>>
    /\ raised = FALSE
    /\ searches = <<>>
    /\ validator = <<>>
    /\ calls = 0
    /\ NoNmsCaller

CallMapping ==
    /\ pc = "idle"
    /\ \E thr \in MappingThrPool, cap \in CapPool, nms_iou \in MappingIouPool :
          /\ args' = MkArgs("multiple", 0, thr, ScaleSweep, cap, nms_iou)
          /\ \E run \in { MatchMultiple(thr, ScaleSweep, nms_iou, cap) } :
                Returns(run, "multiple_done")
    /\ UNCHANGED <<prevArgs, prevResult, inputs, nmsLocals, searches, validator>>

NextMapping == CallMapping

SpecMapping == InitMapping /\ [][NextMapping]_vars

----------------------------------------------------------------------------
(* Claims about match_multiple and its mapping *)

\* The positions 1..Len(templates) in mapping order, and without position k
Positions == [j \in DOMAIN templates |-> j]

Without(k) == SelectSeq(Positions, LAMBDA j : j # k)

NeverFits(k) ==
    \A j \in DOMAIN args.scales : Exceeds(SizeAt(k, args.scales[j]))

MultipleOver(order) ==
    MatchMultipleOver(order, args.threshold, args.scales, args.nms_iou, args.cap)

\* C13: a match_multiple call does not raise; a template that is larger than
\* the target at every scale of the list contributes no candidate, and the
\* result is the one match_multiple returns, without raising, for the mapping
\* with that template removed.
C13_OversizedTemplateDropped ==
    args.op = "multiple" =>
        /\ pc = "multiple_done"
        /\ ~raised
        /\ result = MultipleOver(Positions).dets
        /\ \A k \in DOMAIN templates :
              NeverFits(k) =>
                 /\ MatchSingle(k, args.threshold, args.scales, args.cap).dets = <<>>
                 /\ \A j \in DOMAIN result : result[j].name # templates[k].name
                 /\ ~MultipleOver(Without(k)).raised
                 /\ result = MultipleOver(Without(k)).dets

\* The first template never fits, a later one fits and is detected.
C13_Witness ==
    /\ pc = "multiple_done"
    /\ Len(templates) >= 2
    /\ NeverFits(1)
    /\ ~NeverFits(2)
    /\ result # <<>>

\* The orders in which the templates of the mapping can be inserted
Perms ==
    { order \in [DOMAIN templates -> DOMAIN templates] :
        \A i, j \in DOMAIN templates : order[i] = order[j] => i = j }

\* C14: match_multiple returns the same set of detections for every order of
\* the templates in the mapping.
C14_OrderIndependent ==
    pc = "multiple_done" =>
        \A order \in Perms : Range(MultipleOver(order).dets) = Range(result)

\* What match_single_template returns for template k with the arguments of
\* the match_multiple call
CandidatesOf(k) == MatchSingle(k, args.threshold, args.scales, args.cap).dets

\* The first of three templates yields two candidates, at different scales,
\* with IoU >= nms_iou; the second yields one candidate, whose IoU with each
\* of them is below nms_iou; the third yields none.
ThreeTemplateCase ==
    /\ pc = "multiple_done"
    /\ Len(templates) = 3
    /\ Len(CandidatesOf(1)) = 2
    /\ CandidatesOf(1)[1].scale # CandidatesOf(1)[2].scale
    /\ IouGeq(CandidatesOf(1)[1].box, CandidatesOf(1)[2].box, args.nms_iou)
    /\ Len(CandidatesOf(2)) = 1
    /\ \A j \in 1..2 :
          FracLess(Iou(CandidatesOf(2)[1].box, CandidatesOf(1)[j].box), args.nms_iou)
    /\ CandidatesOf(3) = <<>>

\* C15: in the case above match_multiple returns exactly two detections: of
\* the first template's two candidates one that scores at least as high as
\* the other, and the candidate of the second template.
C15_ThreeTemplates ==
    ThreeTemplateCase =>
        /\ Len(result) = 2
        /\ CandidatesOf(2)[1] \in Range(result)
        /\ \E j \in 1..2 :
              /\ CandidatesOf(1)[j] \in Range(result)
              /\ CandidatesOf(1)[j].score >= CandidatesOf(1)[3 - j].score
              /\ CandidatesOf(1)[3 - j] \notin Range(result)

\* The case with two different scores for the first template, the lower one
\* at the first scale, and a third template that fits but matches nowhere.
C15_Witness ==
    /\ ThreeTemplateCase
    /\ CandidatesOf(1)[1].score < CandidatesOf(1)[2].score
    /\ ~NeverFits(3)
    /\ Len(result) = 2

----------------------------------------------------------------------------
(* A caller of match_single_template with one template: either the small    *)
(* target and templates of the matcher's caller above, or a 120 x 60        *)
(* target and a 40 x 20 template whose surfaces are quiet but for at most   *)
(* one peak.                                                                *)

ExampleTicketPool == { <<120, 60>> }
ExampleShapePool == { <<40, 20>> }
ExamplePeakPool == { <<80, 40>>, <<0, 0>> }

ExampleSurfacePool(size, img) ==
    LET ps == PositionSet(size, img)
    IN  { [q \in ps |-> v] : v \in QuietPool }
        \cup { [q \in ps |-> IF q = p THEN hi ELSE v] :
                 v \in QuietPool, p \in ExamplePeakPool \cap ps, hi \in ScorePool }

ExampleCorrPool(shape, img) ==
    LET sizes == SweepSizes(shape, img)
        all   == UNION { ExampleSurfacePool(sz, img) : sz \in sizes }
    IN  { f \in [sizes -> all] : \A sz \in sizes : f[sz] \in ExampleSurfacePool(sz, img) }

InitExample ==
    /\ use_clahe = TRUE
    /\ use_edges = TRUE
    /\ \E c \in CannyPool : canny_low = c[1] /\ canny_high = c[2]
    /\ ticket \in ExampleTicketPool
    /\ \E shape \in ExampleShapePool :
          templates = << [name |-> TplNames[1], shape |-> shape] >>
    /\ \E c \in ExampleCorrPool(templates[1].shape, ticket) : corr = << c >>
    /\ pc = "idle"
    /\ args = NoArgs
    /\ prevArgs = NoArgs
    /\ result = <<>>
    /\ prevResult = <<>>
    /\ corrLog = <<>>
    /\ raised = FALSE
    /\ searches = <<>>
    /\ validator = <<>>
    /\ calls = 0
    /\ NoNmsCaller

InitSingle ==
    \/ InitMatch /\ Len(templates) = 1
    \/ InitExample

NextSingle == CallSingle

SpecSingle == InitSingle /\ [][NextSingle]_vars

----------------------------------------------------------------------------
(* Claims about match_single_template and the sizes of the sweep *)

\* The scales of the call, by their place in the list, whose resized
\* template fits the target
FittingScales ==
    { j \in DOMAIN args.scales : ~Exceeds(SizeAt(args.tpl, args.scales[j])) }

\* The locations at or above the threshold on the surface of scale j
LocationsAbove(j) ==
    LET res == corr[args.tpl][SizeAt(args.tpl, args.scales[j])]
    IN  { q \in DOMAIN res : res[q] >= args.threshold }

\* The Detection of location q at scale j
DetectionAt(j, q) ==
    LET size == SizeAt(args.tpl, args.scales[j])
    IN  [name  |-> templates[args.tpl].name,
         score |-> corr[args.tpl][size][q],
         box   |-> <<q[1], q[2], q[1] + size[1], q[2] + size[2]>>,
         scale |-> args.scales[j]]

AllAbove == UNION { { <<j, q>> : q \in LocationsAbove(j) } : j \in FittingScales }

\* C16: every Detection of match_single_template is the Detection of a
\* location with score >= threshold at a fitting scale; when there are no
\* more such locations than max_per_template each of them has its Detection,
\* once for each scale of the list; and a 40x20 template whose only such
\* location at scales [1.0] is (80, 40) gives exactly the Detection with box
\* (80, 40, 120, 60) and scale 1.0.
C16_EmitsIffAbove ==
    pc = "single_done" =>
        /\ \A k \in DOMAIN result :
              \E p \in AllAbove : result[k] = DetectionAt(p[1], p[2])
        /\ Cardinality(AllAbove) <= args.cap =>
              /\ Len(result) = Cardinality(AllAbove)
              /\ \A p \in AllAbove :
                    \E k \in DOMAIN result : result[k] = DetectionAt(p[1], p[2])
        /\ ( /\ templates[args.tpl].shape = <<40, 20>>
             /\ args.scales = << <<1, 1>> >>
             /\ LocationsAbove(1) = { <<80, 40>> } ) =>
              /\ Len(result) = 1
              /\ result[1].box = <<80, 40, 120, 60>>
              /\ result[1].scale = <<1, 1>>
              /\ result[1].name = templates[args.tpl].name

\* The 40x20 template, scales [1.0], and (80, 40) the only location whose
\* score is at or above the threshold: it is equal to it.
C16_Witness ==
    /\ pc = "single_done"
    /\ templates[args.tpl].shape = <<40, 20>>
    /\ args.scales = << <<1, 1>> >>
    /\ LocationsAbove(1) = { <<80, 40>> }
    /\ corr[args.tpl][<<40, 20>>][<<80, 40>>] = args.threshold
    /\ result # <<>>

\* Two locations at or above the threshold on one surface and a cap of 2.
C16_WitnessTwo ==
    /\ pc = "single_done"
    /\ Len(args.scales) = 1
    /\ Cardinality(AllAbove) = 2
    /\ args.cap = 2
    /\ Len(result) = 2

----------------------------------------------------------------------------
(* A caller with a 14 x 10 target and one template, which it hands to       *)
(* match_single_template or, as a mapping of one, to                        *)
(* find_best_of_templates.                                                  *)

SizesTicketPool == { <<14, 10>> }

\* 11 * 1.25 = 13.75 and 9 * 1.25 = 11.25
SizesShapePool == { <<11, 8>>, <<9, 8>> }

InitSizes ==
    /\ use_clahe = TRUE
    /\ use_edges = TRUE
    /\ \E c \in CannyPool : canny_low = c[1] /\ canny_high = c[2]
    /\ ticket \in SizesTicketPool
    /\ \E shape \in SizesShapePool :
          templates = << [name |-> TplNames[1], shape |-> shape] >>
    /\ \E c \in MappingCorrPool(templates[1].shape, ticket) : corr = << c >>
    /\ pc = "idle"
    /\ args = NoArgs
    /\ prevArgs = NoArgs
    /\ result = <<>>
    /\ prevResult = <<>>
    /\ corrLog = <<>>
    /\ raised = FALSE
    /\ searches = <<>>
    /\ validator = <<>>
    /\ calls = 0
    /\ NoNmsCaller

NextSizes ==
    \/ CallSingle
    \/ CallBest

SpecSizes == InitSizes /\ [][NextSizes]_vars

\* round(n / d) of Python: to the nearest integer, a half to the even one
Round(n, d) ==
    LET q == n \div d
        r == 2 * (n % d)
    IN  IF r < d THEN q
        ELSE IF r > d THEN q + 1
        ELSE IF q % 2 = 0 THEN q ELSE q + 1

RoundedSize(shape, s) ==
    << Max(MinSide, Round(shape[1] * s[1], s[2])),
       Max(MinSide, Round(shape[2] * s[1], s[2])) >>

\* C17: the sizes match_single_template and find_best_of_templates correlate
\* at, and the width and height of the boxes they return, are
\* max(10, round(w * s)) and max(10, round(h * s)) for a scale s of the list.
C17_RoundedSizes ==
    (args.op \in {"single", "best"} /\ pc # "raised") =>
        /\ \A k \in DOMAIN corrLog :
              \E j \in DOMAIN args.scales :
                 corrLog[k] = RoundedSize(templates[1].shape, args.scales[j])
        /\ \A k \in DOMAIN result :
              LET size == RoundedSize(ShapeOfName(result[k].name), result[k].scale)
              IN  /\ result[k].box[3] - result[k].box[1] = size[1]
                  /\ result[k].box[4] - result[k].box[2] = size[2]

----------------------------------------------------------------------------
(* A caller that keeps calling: either the _nms caller of the first part,   *)
(* or a caller with one matcher, one target and a mapping of at most one    *)
(* template that calls match_single_template, match_multiple and            *)
(* find_best_of_templates up to MaxCalls times in any order, with the       *)
(* whole sweep of ScalePool.  prevArgs and prevResult keep the arguments    *)
(* and the result of its first call.                                        *)

MaxCalls == 3

\* nms_iou of these calls: the default 0.4
DefaultIouPool == { <<2, 5>> }

MatcherAtRest == pc \in {"idle", "single_done", "multiple_done", "best_done"}

InitRepeat ==
    \/ InitNms
    \/ InitMatch /\ Len(templates) <= 1

KeepFirst ==
    /\ prevArgs' = IF calls = 1 THEN args ELSE prevArgs
    /\ prevResult' = IF calls = 1 THEN result ELSE prevResult

RepeatSingle ==
    /\ MatcherAtRest
    /\ calls < MaxCalls
    /\ \E i \in DOMAIN templates, thr \in MatchThrPool, cap \in CapPool :
          /\ args' = MkArgs("single", i, thr, ScaleSweep, cap, <<0, 1>>)
          /\ \E run \in { MatchSingle(i, thr, ScaleSweep, cap) } : Returns(run, "single_done")
    /\ KeepFirst
    /\ UNCHANGED <<inputs, nmsLocals, searches, validator>>

RepeatMultiple ==
    /\ MatcherAtRest
    /\ calls < MaxCalls
    /\ \E thr \in MatchThrPool, cap \in CapPool, nms_iou \in DefaultIouPool :
          /\ args' = MkArgs("multiple", 0, thr, ScaleSweep, cap, nms_iou)
          /\ \E run \in { MatchMultiple(thr, ScaleSweep, nms_iou, cap) } :
                Returns(run, "multiple_done")
    /\ KeepFirst
    /\ UNCHANGED <<inputs, nmsLocals, searches, validator>>

RepeatBest ==
    /\ MatcherAtRest
    /\ calls < MaxCalls
    /\ args' = MkArgs("best", 0, 0, ScaleSweep, 0, <<0, 1>>)
    /\ \E run \in { FindBest(ScaleSweep) } : Returns(run, "best_done")
    /\ KeepFirst
    /\ UNCHANGED <<inputs, nmsLocals, searches, validator>>

NextRepeat ==
    \/ NmsEnter
    \/ NmsStep
    \/ NmsReturn
    \/ RekNmsEnter
    \/ RekNmsStep
    \/ RekNmsReturn
    \/ NmsAgain
    \/ RepeatSingle
    \/ RepeatMultiple
    \/ RepeatBest

SpecRepeat == InitRepeat /\ [][NextRepeat]_vars

\* C18: no step changes the matcher's fields, the target, the templates or
\* what their correlation gives; no step of a running _nms call changes the
\* list it was called with; and a matcher call with the arguments of the
\* first call returns what the first call returned, whatever was called in
\* between.
C18_Frame ==
    [][ /\ inputs' = inputs
        /\ pc \in {"cv_call", "cv_loop", "rek_call", "rek_loop"} => boxes' = boxes
        /\ (MatcherAtRest' /\ calls' >= 2 /\ args' = prevArgs') => result' = prevResult'
      ]_vars

\* The third call has the arguments of the first call and returns its
\* detections.
C18_Witness ==
    /\ MatcherAtRest
    /\ calls = 3
    /\ args = prevArgs
    /\ result = prevResult
    /\ result # <<>>
    /\ corrLog # <<>>

\* A second _nms call has returned and boxes still is the list it was
\* called with, in an order _nms had to change.
C18_WitnessNms ==
    /\ pc = "cv_done"
    /\ calls = 2
    /\ boxes = prevResult
    /\ Len(boxes) >= 2

----------------------------------------------------------------------------
(* RekognitionService.template_match_logo, and a caller that hands it the   *)
(* target and the one template of the matcher's caller as ticket and logo.  *)

RECURSIVE RekNmsLoop(_, _)
RekNmsLoop(st, thr) ==
    IF st[1] = <<>> THEN st[2] ELSE RekNmsLoop(RekNmsIterate(st, thr), thr)

\* RekognitionService._nms(boxes, iou_threshold) as a function of its arguments
RekNms(bs, thr) == IF bs = <<>> THEN <<>> ELSE RekNmsLoop(<<SortByArea(bs), <<>>>>, thr)

\* cv2.matchTemplate exchanges image and template when the template is at
\* least as large as the image in both dimensions and larger in one, and
\* raises when it is larger in one dimension and smaller in the other.
CvSwaps(size, img) ==
    /\ ~CvTemplateFits(size, img)
    /\ img[1] <= size[1]
    /\ img[2] <= size[2]

CvRaises(size, img) == ~CvTemplateFits(size, img) /\ ~CvSwaps(size, img)

\* if th < 10 or tw < 10: continue
LogoSkips(size) == size[2] < MinSide \/ size[1] < MinSide

\* The sizes of the sweep at which cv2.matchTemplate exchanges ticket and logo
SwapSizes(shape, img) ==
    { sz \in { Resized(shape, s) : s \in ScalePool } : CvSwaps(sz, img) }

\* What cv2.matchTemplate returns then: a (tw - W + 1) x (th - H + 1) surface
SwapSurfacePool(size, img) ==
    { [q \in PositionSet(img, size) |-> v] : v \in ScorePool }

SwapPool(shape, img) ==
    LET sizes == SwapSizes(shape, img)
        all   == UNION { SwapSurfacePool(sz, img) : sz \in sizes }
    IN  { f \in [sizes -> all] : \A sz \in sizes : f[sz] \in SwapSurfacePool(sz, img) }

\* The body of "for s in scales" of template_match_logo; sw holds the
\* surfaces of the sizes at which ticket and logo are exchanged.
LogoPass(run, s, thr, sw) ==
    LET size == Resized(templates[1].shape, s)
        fits == CvTemplateFits(size, ticket)
        res  == IF fits THEN corr[1][size] ELSE sw[size]
        hits == SelectSeq(IF fits THEN SurfacePositions(size, ticket)
                                  ELSE SurfacePositions(ticket, size),
                          LAMBDA q : res[q] >= thr)
    IN  IF run.raised THEN run
        ELSE IF LogoSkips(size) THEN run
        ELSE IF CvRaises(size, ticket)
             THEN [run EXCEPT !.log = Append(@, size), !.raised = TRUE]
        ELSE [run EXCEPT
                !.log = Append(@, size),
                !.dets = @ \o [k \in DOMAIN hits |-> BoxAt(hits[k], size)]]

RECURSIVE LogoSweep(_, _, _, _)
LogoSweep(run, scales, thr, sw) ==
    IF scales = <<>> THEN run
    ELSE LogoSweep(LogoPass(run, Head(scales), thr, sw), Tail(scales), thr, sw)

\* nms_iou of template_match_logo: 0.4
LogoIouPool == { <<2, 5>> }

\* template_match_logo(ticket_img, logo_img, threshold, multi_scale, scales,
\* use_edges) with CV2_AVAILABLE = cv2_ok
MatchLogo(cv2_ok, thr, multi_scale, scales, sw) ==
    IF ~cv2_ok THEN NewRun
    ELSE LET all == LogoSweep(NewRun, IF multi_scale THEN scales ELSE << <<1, 1>> >>, thr, sw)
             iou == CHOOSE t \in LogoIouPool : TRUE
         IN  [all EXCEPT !.dets = RekNms(@, iou)]

LogoArgs(cv2_ok, thr, multi_scale, scales, edges) ==
    [op |-> "logo", tpl |-> 1, threshold |-> thr, scales |-> scales, cap |-> 0,
     nms_iou |-> CHOOSE t \in LogoIouPool : TRUE,
     multi_scale |-> multi_scale, use_edges |-> edges, cv2_ok |-> cv2_ok]

InitLogo == InitMatch /\ Len(templates) = 1

CallLogo ==
    /\ pc = "idle"
    /\ \E cv2_ok \in BOOLEAN, thr \in MatchThrPool, multi_scale \in BOOLEAN,
          edges \in BOOLEAN, scales \in SeqsUpTo(ScalePool, MaxScales),
          sw \in SwapPool(templates[1].shape, ticket) :
          /\ args' = LogoArgs(cv2_ok, thr, multi_scale, scales, edges)
          /\ \E run \in { MatchLogo(cv2_ok, thr, multi_scale, scales, sw) } :
                Returns(run, "logo_done")
    /\ UNCHANGED <<prevArgs, prevResult, inputs, nmsLocals, searches, validator>>

NextLogo == CallLogo

SpecLogo == InitLogo /\ [][NextLogo]_vars

\* The scales template_match_logo sweeps
LogoScales == IF args.multi_scale THEN args.scales ELSE << <<1, 1>> >>

\* C19: template_match_logo does not raise; it calls cv2.matchTemplate at no
\* scale whose resized logo is larger than the ticket in a dimension; and
\* when the logo is larger at every scale of the sweep it returns [].
C19_LogoScaleGuard ==
    args.op = "logo" =>
        /\ pc = "logo_done"
        /\ ~raised
        /\ \A k \in DOMAIN corrLog : ~Exceeds(corrLog[k])
        /\ (\A j \in DOMAIN LogoScales : Exceeds(SizeAt(1, LogoScales[j]))) => result = <<>>

----------------------------------------------------------------------------
(* Claims about match_article_style and the general path *)

ArticleReturned == pc = "article_done" /\ args.op = "article"

\* C21: what match_article_style returns is what match_multiple returns on a
\* matcher without CLAHE and Canny, for the mapping of the one template, the
\* scale list [tpl_scale], the same threshold and nms_iou and the cap
\* max_hits.
C21_ArticleIsMultiple ==
    (ArticleReturned /\ ~use_clahe /\ ~use_edges) =>
        result = MatchMultiple(args.threshold, args.scales, args.nms_iou, args.cap).dets

\* The same for calls in which no side of the template is below 10 pixels at
\* scale 1.0 or the scale differs from 1.0.
C21_ArticleIsMultipleResized ==
    (/\ ArticleReturned /\ ~use_clahe /\ ~use_edges
     /\ ArticleSize(templates[1].shape, args.scales[1])
           = Resized(templates[1].shape, args.scales[1])) =>
        result = MatchMultiple(args.threshold, args.scales, args.nms_iou, args.cap).dets

----------------------------------------------------------------------------
(* match_multiple with its per-template searches run concurrently: each     *)
(* search is the loop "for s in scales" of match_single_template on its own *)
(* dets list, one pass of the loop at a time; when every search has ended   *)
(* the lists are concatenated in mapping order and _nms runs once.          *)

InitInterleaved == InitMatch /\ use_clahe /\ use_edges

\* Every search starts as match_single_template does: dets = [], and the
\* scale list still to be swept.
StartSearches ==
    /\ pc = "idle"
    /\ \E thr \in MatchThrPool, cap \in CapPool, nms_iou \in DefaultIouPool :
          /\ args' = MkArgs("multiple", 0, thr, ScaleSweep, cap, nms_iou)
          /\ searches' = [k \in DOMAIN templates |-> [run |-> NewRun, todo |-> ScaleSweep]]
    /\ pc' = "searching"
    /\ UNCHANGED <<result, corrLog, raised, calls, prevArgs, prevResult, inputs, nmsLocals, validator>>

\* The mutant of SearchPass: the searches count their candidates against one
\* shared cap.
SearchPassSharedCap(k) ==
    LET others == Len(Flatten([j \in DOMAIN searches |->
                                  IF j = k THEN <<>> ELSE searches[j].run.dets]))
    IN  [run  |-> ScalePass(searches[k].run, k, Head(searches[k].todo),
                            args.threshold, args.cap - others),
         todo |-> Tail(searches[k].todo)]

\* One pass of the loop over the scales in the search of template k
SearchPass(k) ==
    [run  |-> ScalePass(searches[k].run, k, Head(searches[k].todo),
                        args.threshold, args.cap),
     todo |-> Tail(searches[k].todo)]

SearchStep ==
    /\ pc = "searching"
    /\ \E k \in DOMAIN searches :
          /\ searches[k].todo # <<>>
          /\ searches' = [searches EXCEPT ![k] = SearchPass(k)]
    /\ UNCHANGED <<pc, args, result, corrLog, raised, calls, prevArgs, prevResult,
                   inputs, nmsLocals, validator>>

\* all_dets in mapping order, and return self._nms(all_dets, iou_thr=nms_iou)
MergeSearches ==
    [dets   |-> Nms(Flatten([k \in DOMAIN searches |-> searches[k].run.dets]), args.nms_iou),
     log    |-> Flatten([k \in DOMAIN searches |-> searches[k].run.log]),
     raised |-> \E k \in DOMAIN searches : searches[k].run.raised]

FinishSearches ==
    /\ pc = "searching"
    /\ \A k \in DOMAIN searches : searches[k].todo = <<>>
    /\ \E run \in { MergeSearches } : Returns(run, "multiple_done")
    /\ UNCHANGED <<args, searches, prevArgs, prevResult, inputs, nmsLocals, validator>>

NextInterleaved ==
    \/ StartSearches
    \/ SearchStep
    \/ FinishSearches

SpecInterleaved == InitInterleaved /\ [][NextInterleaved]_vars

\* The scales search k has swept
Swept(k) == SubSeq(args.scales, 1, Len(args.scales) - Len(searches[k].todo))

\* C22: at every point of every interleaving the candidates of a search are
\* those of the sequential loop of match_single_template on that template
\* over the scales swept so far, whatever the other searches hold; and what
\* is returned after the merge is what the sequential match_multiple returns.
C22_SearchesIndependent ==
    /\ pc \in {"searching", "multiple_done"} =>
          \A k \in DOMAIN searches :
              searches[k].run = Sweep(NewRun, k, Swept(k), args.threshold, args.cap)
    /\ pc = "multiple_done" =>
          /\ \A k \in DOMAIN searches :
                searches[k].run = MatchSingle(k, args.threshold, args.scales, args.cap)
          /\ result = MatchMultiple(args.threshold, args.scales, args.nms_iou, args.cap).dets

\* A point of an interleaving the sequential run never passes: the search of
\* the second template has ended, having stopped collecting at the cap
\* within a surface, while the search of the first has swept one scale, holds
\* candidates and has a scale to go.
C22_Witness ==
    /\ pc = "searching"
    /\ Len(searches) >= 2
    /\ args.cap = 1
    /\ searches[2].todo = <<>>
    /\ searches[2].run.dets # <<>>
    /\ Len(searches[2].run.dets) < Len(MatchSingle(2, args.threshold, args.scales, 2).dets)
    /\ Len(searches[1].todo) = 1
    /\ searches[1].run.dets # <<>>

\* The merged result of two searches that both stopped collecting at the cap
C22_WitnessMerged ==
    /\ pc = "multiple_done"
    /\ Len(searches) >= 2
    /\ args.cap = 1
    /\ \A k \in 1..2 :
          /\ searches[k].run.dets # <<>>
          /\ Len(searches[k].run.dets) <
                Len(MatchSingle(k, args.threshold, args.scales, 2).dets)
    /\ Len(result) >= 1

----------------------------------------------------------------------------
(* Termination of the two _nms loops *)

\* A call that has started runs on: the interpreter takes the next step of
\* the loop and the return.
NmsRuns ==
    /\ WF_vars(NmsEnter)
    /\ WF_vars(NmsStep)
    /\ WF_vars(NmsReturn)
    /\ WF_vars(RekNmsEnter)
    /\ WF_vars(RekNmsStep)
    /\ WF_vars(RekNmsReturn)

SpecNmsFair == SpecNms /\ NmsRuns

InNms == pc \in {"cv_call", "cv_loop", "rek_call", "rek_loop"}
NmsReturned == pc \in {"cv_done", "rek_done"}

\* C23: every call of either _nms returns; its loop makes at most len(boxes)
\* iterations, each of which shortens boxes_sorted by at least the picked
\* candidate; and a non-empty input gives a non-empty output.
C23_NmsTerminates ==
    /\ InNms ~> NmsReturned
    /\ [](pc \in {"cv_loop", "rek_loop", "cv_done", "rek_done"} =>
             /\ iters <= Len(boxes)
             /\ iters + Len(boxes_sorted) <= Len(boxes))
    /\ [](NmsReturned => (boxes # <<>> => result # <<>>))
    /\ [][(pc \in {"cv_loop", "rek_loop"} /\ pc' = pc) =>
             /\ Len(boxes_sorted') < Len(boxes_sorted)
             /\ picked' = Append(picked, Head(boxes_sorted))]_vars

\* A returned call of OpenCVMatcher._nms that took as many iterations as its
\* input holds candidates, the most the bound allows
C23_Witness ==
    /\ pc = "cv_done"
    /\ Len(boxes) = MaxBoxes
    /\ iters = Len(boxes)
    /\ Len(result) = Len(boxes)

\* A returned call of RekognitionService._nms that removed candidates and
\* took fewer iterations than its input holds
C23_WitnessRek ==
    /\ pc = "rek_done"
    /\ Len(boxes) = MaxBoxes
    /\ iters = 1
    /\ Len(result) = 1

----------------------------------------------------------------------------
(* A caller that runs the thresholded search and then the diagnostic one on *)
(* the same matcher, target, mapping and scale list.                        *)

ThresholdedSearch ==
    /\ pc = "idle"
    /\ \E thr \in MatchThrPool, cap \in CapPool, nms_iou \in NmsIouPool,
          scales \in SeqsUpTo(ScalePool, MaxScales) :
          /\ args' = MkArgs("multiple", 0, thr, scales, cap, nms_iou)
          /\ \E run \in { MatchMultiple(thr, scales, nms_iou, cap) } :
                Returns(run, "multiple_done")
    /\ UNCHANGED <<prevArgs, prevResult, inputs, nmsLocals, searches, validator>>

DiagnosticSearch ==
    /\ pc = "multiple_done"
    /\ args' = MkArgs("best", 0, 0, args.scales, 0, <<0, 1>>)
    /\ \E run \in { FindBest(args.scales) } : Returns(run, "best_done")
    /\ prevArgs' = args
    /\ prevResult' = result
    /\ UNCHANGED <<inputs, nmsLocals, searches, validator>>

NextDiagnostic ==
    \/ ThresholdedSearch
    \/ DiagnosticSearch

SpecDiagnostic == InitInterleaved /\ [][NextDiagnostic]_vars

BothSearched == pc = "best_done" /\ prevArgs.op = "multiple" /\ prevArgs.scales = args.scales

\* C24: when match_multiple returned detections, find_best_of_templates on
\* the same matcher, target, templates and scales returns a Detection, and
\* its score is at least the score of each of them.
C24_BestCoversMultiple ==
    (BothSearched /\ prevResult # <<>>) =>
        /\ Len(result) = 1
        /\ \A k \in DOMAIN prevResult : result[1].score >= prevResult[k].score

\* match_multiple returned detections of two templates, one of them with a
\* score below the best one's.
C24_Witness ==
    /\ BothSearched
    /\ Len(result) = 1
    /\ \E j, k \in DOMAIN prevResult :
          /\ prevResult[j].name # prevResult[k].name
          /\ prevResult[k].score < result[1].score
          /\ prevResult[j].score = result[1].score

----------------------------------------------------------------------------
(* StreamlitApp: the OpenCV branch of the submit handler.  The uploaded     *)
(* image is the target and the uploaded templates are the mapping; scores   *)
(* and thresholds are in hundredths, so the float 75.0 is 7500.             *)

\* st.sidebar.slider("Umbral de coincidencia (0-100)", 50, 100, 75, 1):
\* the ends and the default
cv_threshold_pool == { 50, 75, 100 }

\* cv_scales_str, parsed by _parse_scales: the scales of the string that are
\* in ScalePool, in the order of the string (descending)
raw_scales == << <<5, 4>>, <<1, 1>> >>

cv_nms_iou == <<2, 5>>
cv_max_per_tpl == 50

RECURSIVE MaxOver(_, _)
MaxOver(seq, d) ==
    IF seq = <<>> THEN 0 ELSE Max(Head(seq).shape[d], MaxOver(Tail(seq), d))

\* safe_scales: the scales at which the largest template width and height,
\* truncated, do not exceed the image; [1.0] when none is left
safe_scales ==
    LET max_tpl_w == MaxOver(templates, 1)
        max_tpl_h == MaxOver(templates, 2)
        safe == SelectSeq(raw_scales, LAMBDA s :
                    /\ (max_tpl_w * s[1]) \div s[2] <= ticket[1]
                    /\ (max_tpl_h * s[1]) \div s[2] <= ticket[2])
    IN  IF safe = <<>> THEN << <<1, 1>> >> ELSE safe

\* threshold=float(cv_threshold)
PassedThreshold(slider) == slider * 100

AppArgs(slider) ==
    [op |-> "app", tpl |-> 0, threshold |-> PassedThreshold(slider), scales |-> safe_scales,
     cap |-> cv_max_per_tpl, nms_iou |-> cv_nms_iou, slider |-> slider]

\* What the branch shows: the detections of match_multiple, else the best of
\* find_best_of_templates, else the "no hubo ninguna coincidencia" note; an
\* exception of either call is caught and shown as an error.
AppOpenCV ==
    /\ pc = "idle"
    /\ \E slider \in cv_threshold_pool :
          /\ args' = AppArgs(slider)
          /\ IF templates = <<>>
             THEN /\ pc' = "app_no_templates"
                  /\ UNCHANGED <<result, corrLog, raised, calls>>
             ELSE \E detections \in { MatchMultiple(PassedThreshold(slider), safe_scales,
                                                    cv_nms_iou, cv_max_per_tpl) } :
                  IF detections.raised
                  THEN Returns(detections, "app_error")
                  ELSE IF detections.dets # <<>>
                  THEN Returns(detections, "app_detections")
                  ELSE \E best \in { FindBest(safe_scales) } :
                       Returns([best EXCEPT !.log = detections.log \o @],
                               IF best.dets # <<>> THEN "app_best" ELSE "app_no_match")
    /\ UNCHANGED <<prevArgs, prevResult, inputs, nmsLocals, searches, validator>>

NextApp == AppOpenCV

SpecApp == InitInterleaved /\ [][NextApp]_vars

\* A location of a surface the sweep of the safe scales correlates whose
\* score is at least the slider value read as a percentage
ScoreAtOrAboveSlider ==
    \E k \in DOMAIN templates, j \in DOMAIN args.scales :
        LET size == Resized(templates[k].shape, args.scales[j])
        IN  /\ ~Oversized(size, ticket)
            /\ \E q \in PositionSet(size, ticket) : corr[k][size][q] >= args.slider

\* C25: the application passes the slider value v as the threshold v / 100,
\* and when a location scores at least that the flow shows the detections of
\* match_multiple instead of falling through to find_best_of_templates.
C25_ThresholdScale ==
    (args.op = "app" /\ templates # <<>>) =>
        /\ args.threshold = args.slider
        /\ ScoreAtOrAboveSlider => pc = "app_detections"

----------------------------------------------------------------------------
(* Validaciones and ValidacionTrasera: the selection of the checks.  What a *)
(* check finds in the text is an input: found is the set of fields whose    *)
(* check_ method returns True, occ gives what each count_ method returns.   *)

\* The keys of checks and counts in run_all_checks and run_all_counts
KnownChecks(cls) ==
    IF cls = "Validaciones"
    THEN {"sorteo", "fecha", "dia", "hora", "premio_mayor", "valor_billete",
          "valor_fraccion", "serie", "numero"}
    ELSE {"fecha", "sorteo", "valor_billete", "valor_fraccion", "premio_mayor",
          "total_plan_premios", "series"}

\* The set __init__ falls back on
DefaultChecks(cls) ==
    IF cls = "Validaciones"
    THEN {"sorteo", "fecha", "dia", "hora", "premio_mayor", "valor_billete",
          "valor_fraccion", "serie", "numero"}
    ELSE {"fecha", "sorteo", "valor_billete", "valor_fraccion", "premio_mayor",
          "total_plan_premios", "series"}

ClassPool == {"Validaciones", "ValidacionTrasera"}

\* The checks_enabled argument: None, or a set of names
None == [none |-> TRUE, names |-> {}]
Names(S) == [none |-> FALSE, names |-> S]

EnabledPool ==
    { None, Names({}), Names({"fecha"}), Names({"fecha", "sorteo"}),
      Names({"numero"}), Names({"series"}), Names({"fecha", "lema"}),
      Names({"lema"}) }
    \cup { Names(DefaultChecks(cls)) : cls \in ClassPool }

FoundPool == { {}, {"fecha"}, {"fecha", "sorteo", "numero", "series"} }
OccPool == { 0, 2 }

\* "if checks_enabled": None and the empty set are false
Truthy(e) == ~e.none /\ e.names # {}

\* self.checks_enabled = set(checks_enabled) if checks_enabled else {...}
Construct(cls, e, found, occ) ==
    [cls |-> cls, checks_enabled |-> IF Truthy(e) THEN e.names ELSE DefaultChecks(cls),
     found |-> found, occ |-> occ]

\* {k: fn() for k, fn in checks.items() if k in self.checks_enabled}
run_all_checks(v) ==
    [k \in { f \in KnownChecks(v.cls) : f \in v.checks_enabled } |-> k \in v.found]

\* {k: fn() for k, fn in counts.items() if k in self.checks_enabled}
run_all_counts(v) ==
    [k \in { f \in KnownChecks(v.cls) : f \in v.checks_enabled } |->
        IF k \in v.found THEN v.occ ELSE 0]

InitValidator ==
    /\ pc = "new"
    /\ result = <<>>
    /\ prevResult = <<>>
    /\ calls = 0
    /\ NoNmsCaller
    /\ NoMatcher

NewValidator ==
    /\ pc = "new"
    /\ \E cls \in ClassPool, e \in EnabledPool, found \in FoundPool, occ \in OccPool :
          /\ args' = [op |-> "init", cls |-> cls, checks_enabled |-> e]
          /\ validator' = Construct(cls, e, found, occ)
    /\ pc' = "ready"
    /\ UNCHANGED <<result, prevResult, calls, prevArgs, corrLog, raised, inputs, nmsLocals,
                   searches>>

ValidatorAtRest == pc \in {"ready", "checks_done", "counts_done"}

RunAllChecks ==
    /\ ValidatorAtRest
    /\ calls < MaxCalls
    /\ result' = run_all_checks(validator)
    /\ prevResult' = result
    /\ calls' = calls + 1
    /\ pc' = "checks_done"
    /\ UNCHANGED <<args, validator, prevArgs, corrLog, raised, inputs, nmsLocals, searches>>

RunAllCounts ==
    /\ ValidatorAtRest
    /\ calls < MaxCalls
    /\ result' = run_all_counts(validator)
    /\ prevResult' = result
    /\ calls' = calls + 1
    /\ pc' = "counts_done"
    /\ UNCHANGED <<args, validator, prevArgs, corrLog, raised, inputs, nmsLocals, searches>>

NextValidator ==
    \/ NewValidator
    \/ RunAllChecks
    \/ RunAllCounts

SpecValidator == InitValidator /\ [][NextValidator]_vars

\* The fields the caller selected: every known one for None, else the known
\* ones of the given set
Selected ==
    { f \in KnownChecks(args.cls) : args.checks_enabled.none \/ f \in args.checks_enabled.names }

\* C26: run_all_checks and run_all_counts return an entry for exactly the
\* known fields the caller selected, None selecting all of them and the
\* empty set none; and two calls on one object return the same key set.
C26_FieldSelection ==
    pc \in {"checks_done", "counts_done"} =>
        /\ DOMAIN result = Selected
        /\ calls >= 2 => DOMAIN result = DOMAIN prevResult

\* The same for the callers that do not pass the empty set.
C26_FieldSelectionNonEmpty ==
    (pc \in {"checks_done", "counts_done"} /\ args.checks_enabled # Names({})) =>
        /\ DOMAIN result = Selected
        /\ calls >= 2 => DOMAIN result = DOMAIN prevResult

====
